---- MODULE Spec2Model ----
(***************************************************************************)
(* Token borrowing machine (src/src/machine2.rs): a tree of references     *)
(* derived from one root, token pieces moving along parent edges, one      *)
(* global permission register and the access check that ties them          *)
(* together.  Every public method of TokenMachine is an operator from a     *)
(* machine value to an outcome (the machine after the call and either      *)
(* "ok" or the panic message), and an action that applies it.              *)
(* The single-token machine of src/src/machine.rs is modelled the same way  *)
(* in its own variables and its own specification (Spec1).                 *)
(***************************************************************************)
EXTENDS Integers, FiniteSets, Sequences, TLC

\* ---------------------------------------------------------------- bounds
MaxRefs == 3
MaxTokens == 2

\* ----------------------------------------------------------------- types
\* A u32 is held as its two's-complement representative: 2^32 - 1, the value
\* 0 - 1 wraps to, is -1.  The comparisons the code makes on u32 values are
\* written so that they agree with the unsigned comparison on representatives.
WrappingSub1(x) == x - 1
U32IsZero(x) == x = 0
U32GtZero(x) == x # 0
U32LeOne(x) == x \in {0, 1}

RefState == {"Created", "Borrowing", "Dead"}
RefKind == {"SharedReadOnly", "SharedReadWrite", "Unique"}
TokenExclusivity == {"Shared", "Exclusive"}
TokenPermissions == {"ReadOnly", "ReadWrite"}
AccessKind == {"Read", "Write"}

\* the result of a call that returned normally
OK == "ok"

\* panic messages of machine2.rs
KindViolation == "Cannot create mutable reference from immutable reference"
InsufficientTokens == "Need to have a token to lend one out"
AlreadyBorrowing == "Target has already received a token before"
DeadTarget == "Target cannot be dead"
NoTokenToReturn == "Cannot give back a token if you don't have one"
PartialReturnForbidden == "Can only give back the entire token and not just some piece of it"
ReturnAssert == "assertion failed: source_info.num_tokens == 1"
NoTokenToDup == "Cannot duplicate a token if you do not have a token"
NothingToMerge == "Can only merge tokens if you have more than one"
SubOverflow == "attempt to subtract with overflow"
NoTokenForPerms == "have to own token to change its state"
NotExclusive == "Need to have exclusive ownership of the token to change its state"
DeadAssert == "assertion failed: source_info.state != RefState::Dead"
NoToken == "Cannot read/write without a token"
SROReadViolation == "Cannot read with shared read-only reference if there are writers"
ReadOnlyViolation == "Cannot write with read-only reference"
SRWWriteViolation == "Writing using SharedRW requires read-write token"
UniqueReadViolation == "Cannot read with unique reference if there are writers"
UniqueWriteViolation == "Writing with unique reference requires exclusive read-write access"

\* ----------------------------------------------------------------- state
VARIABLES ref_count, token_count, ref_info, token_perms, last, returned

\* the history of writes through Unique references (kept by SpecHist):
\* written holds the Unique references that have written, superseded those
\* of them after whose write an unrelated Unique reference has written
VARIABLES written, superseded

\* the single-token machine of machine.rs: its TokenMachine fields and its
\* latest call
VARIABLES m1_ref_count, current_owner, m1_ref_info, m1_last

vars2 == <<ref_count, token_count, ref_info, token_perms, last, returned>>
hist == <<written, superseded>>
vars1 == <<m1_ref_count, current_owner, m1_ref_info, m1_last>>
vars == <<vars2, hist, vars1>>

\* the TokenMachine value held in the variables
Machine ==
  [ref_count |-> ref_count, token_count |-> token_count,
   ref_info |-> ref_info, token_perms |-> token_perms]

\* the references handed out so far (keys of ref_info)
References(m) == DOMAIN m.ref_info

Outcome(m, res) == [m |-> m, res |-> res]

\* HashMap::insert
Insert(map, key, value) ==
  [k \in (DOMAIN map) \cup {key} |-> IF k = key THEN value ELSE map[k]]

\* ------------------------------------------------------------ operations
init ==
  [ref_count |-> 1,
   token_count |-> 1,
   ref_info |-> Insert(<<>>, 0,
                  [kind |-> "Unique", state |-> "Borrowing", num_tokens |-> 1,
                   num_splits |-> 0, parent |-> 0]),
   token_perms |-> "ReadWrite"]

\* create_ref without the read-only spawn check
create_ref_unchecked(m, parent, kind) ==
  LET id == m.ref_count
  IN [m |-> [m EXCEPT !.ref_count = @ + 1,
                      !.ref_info = Insert(@, id,
                         [kind |-> kind, state |-> "Created",
                          num_tokens |-> 0, num_splits |-> 0,
                          parent |-> parent])],
      res |-> OK,
      ret |-> {id}]

\* create_ref with the comparison on the new kind inverted
create_ref_inverted(m, parent, kind) ==
  LET parent_info == m.ref_info[parent]
      id == m.ref_count
  IN IF parent_info.kind = "SharedReadOnly" /\ kind = "SharedReadOnly"
     THEN [m |-> m, res |-> KindViolation, ret |-> {}]
     ELSE [m |-> [m EXCEPT !.ref_count = @ + 1,
                           !.ref_info = Insert(@, id,
                              [kind |-> kind, state |-> "Created",
                               num_tokens |-> 0, num_splits |-> 0,
                               parent |-> parent])],
           res |-> OK,
           ret |-> {id}]

\* create_ref that takes the identity of the latest reference instead of a
\* fresh one
create_ref_reuses_id(m, parent, kind) ==
  LET parent_info == m.ref_info[parent]
      id == m.ref_count - 1
  IN IF parent_info.kind = "SharedReadOnly" /\ kind # "SharedReadOnly"
     THEN [m |-> m, res |-> KindViolation, ret |-> {}]
     ELSE [m |-> [m EXCEPT !.ref_count = @ + 1,
                           !.ref_info = Insert(@, id,
                              [kind |-> kind, state |-> "Created",
                               num_tokens |-> 0, num_splits |-> 0,
                               parent |-> parent])],
           res |-> OK,
           ret |-> {id}]

create_ref(m, parent, kind) ==
  LET parent_info == m.ref_info[parent]
      id == m.ref_count
  IN IF parent_info.kind = "SharedReadOnly" /\ kind # "SharedReadOnly"
     THEN [m |-> m, res |-> KindViolation, ret |-> {}]
     ELSE [m |-> [m EXCEPT !.ref_count = @ + 1,
                           !.ref_info = Insert(@, id,
                              [kind |-> kind, state |-> "Created",
                               num_tokens |-> 0, num_splits |-> 0,
                               parent |-> parent])],
           res |-> OK,
           ret |-> {id}]

\* borrow_token that lends to a Dead target as it does to a Created one
borrow_token_revives(m, target) ==
  LET target_info == m.ref_info[target]
      source == target_info.parent
      source_info == m.ref_info[source]
      ri1 == [m.ref_info EXCEPT ![source].num_tokens = @ - 1]
      ri2 == [ri1 EXCEPT ![target].num_tokens = @ + 1]
      ri3 == [ri2 EXCEPT ![target].state = "Borrowing"]
  IN IF source_info.num_tokens = 0 THEN Outcome(m, InsufficientTokens)
     ELSE IF target_info.state = "Borrowing" THEN Outcome(m, AlreadyBorrowing)
     ELSE Outcome([m EXCEPT !.ref_info = ri3], OK)

\* borrow_token that delivers a token to a target already in Borrowing
borrow_token_relends(m, target) ==
  LET target_info == m.ref_info[target]
      source == target_info.parent
      source_info == m.ref_info[source]
      ri1 == [m.ref_info EXCEPT ![source].num_tokens = @ - 1]
      ri2 == [ri1 EXCEPT ![target].num_tokens = @ + 1]
      ri3 == [ri2 EXCEPT ![target].state = "Borrowing"]
  IN IF source_info.num_tokens = 0 THEN Outcome(m, InsufficientTokens)
     ELSE IF target_info.state = "Dead" THEN Outcome(m, DeadTarget)
     ELSE Outcome([m EXCEPT !.ref_info = ri3], OK)

\* borrow_token that takes the unit from the source before it has looked at
\* the target's state
borrow_token_checks_late(m, target) ==
  LET target_info == m.ref_info[target]
      source == target_info.parent
      source_info == m.ref_info[source]
      ri1 == [m.ref_info EXCEPT ![source].num_tokens = @ - 1]
      ri2 == [ri1 EXCEPT ![target].num_tokens = @ + 1]
      ri3 == [ri2 EXCEPT ![target].state = "Borrowing"]
  IN IF source_info.num_tokens = 0 THEN Outcome(m, InsufficientTokens)
     ELSE IF target_info.state = "Borrowing"
          THEN Outcome([m EXCEPT !.ref_info = ri1], AlreadyBorrowing)
     ELSE IF target_info.state = "Dead"
          THEN Outcome([m EXCEPT !.ref_info = ri1], DeadTarget)
     ELSE Outcome([m EXCEPT !.ref_info = ri3], OK)

\* borrow_token that gives the target a unit and leaves the source's
borrow_token_copies(m, target) ==
  LET target_info == m.ref_info[target]
      source == target_info.parent
      source_info == m.ref_info[source]
      ri2 == [m.ref_info EXCEPT ![target].num_tokens = @ + 1]
      ri3 == [ri2 EXCEPT ![target].state = "Borrowing"]
  IN IF source_info.num_tokens = 0 THEN Outcome(m, InsufficientTokens)
     ELSE IF target_info.state = "Borrowing" THEN Outcome(m, AlreadyBorrowing)
     ELSE IF target_info.state = "Dead" THEN Outcome(m, DeadTarget)
     ELSE Outcome([m EXCEPT !.ref_info = ri3], OK)

borrow_token(m, target) ==
  LET target_info == m.ref_info[target]
      source == target_info.parent
      source_info == m.ref_info[source]
      ri1 == [m.ref_info EXCEPT ![source].num_tokens = @ - 1]
      ri2 == [ri1 EXCEPT ![target].num_tokens = @ + 1]
      ri3 == [ri2 EXCEPT ![target].state = "Borrowing"]
  IN IF source_info.num_tokens = 0 THEN Outcome(m, InsufficientTokens)
     ELSE IF target_info.state = "Borrowing" THEN Outcome(m, AlreadyBorrowing)
     ELSE IF target_info.state = "Dead" THEN Outcome(m, DeadTarget)
     ELSE Outcome([m EXCEPT !.ref_info = ri3], OK)

\* return_token without the check on outstanding splits
return_token_partial(m, source) ==
  LET source_info == m.ref_info[source]
      target == source_info.parent
      ri1 == [m.ref_info EXCEPT ![source].num_tokens = @ - 1]
      ri2 == [ri1 EXCEPT ![target].num_tokens = @ + 1]
      ri3 == [ri2 EXCEPT ![source].state = "Dead"]
  IN IF source_info.num_tokens = 0 THEN Outcome(m, NoTokenToReturn)
     ELSE IF ~(source_info.num_tokens = 1) THEN Outcome(m, ReturnAssert)
     ELSE Outcome([m EXCEPT !.ref_info = ri3], OK)

\* return_token that leaves the source's state as it was
return_token_stays_alive(m, source) ==
  LET source_info == m.ref_info[source]
      target == source_info.parent
      ri1 == [m.ref_info EXCEPT ![source].num_tokens = @ - 1]
      ri2 == [ri1 EXCEPT ![target].num_tokens = @ + 1]
  IN IF source_info.num_tokens = 0 THEN Outcome(m, NoTokenToReturn)
     ELSE IF U32GtZero(source_info.num_splits) THEN Outcome(m, PartialReturnForbidden)
     ELSE IF ~(source_info.num_tokens = 1) THEN Outcome(m, ReturnAssert)
     ELSE Outcome([m EXCEPT !.ref_info = ri2], OK)

return_token(m, source) ==
  LET source_info == m.ref_info[source]
      target == source_info.parent
      ri1 == [m.ref_info EXCEPT ![source].num_tokens = @ - 1]
      ri2 == [ri1 EXCEPT ![target].num_tokens = @ + 1]
      ri3 == [ri2 EXCEPT ![source].state = "Dead"]
  IN IF source_info.num_tokens = 0 THEN Outcome(m, NoTokenToReturn)
     ELSE IF U32GtZero(source_info.num_splits) THEN Outcome(m, PartialReturnForbidden)
     ELSE IF ~(source_info.num_tokens = 1) THEN Outcome(m, ReturnAssert)
     ELSE Outcome([m EXCEPT !.ref_info = ri3], OK)

\* dup_token that forgets to count the new piece in token_count
dup_token_uncounted(m, source) ==
  LET source_info == m.ref_info[source]
  IN IF source_info.num_tokens = 0 THEN Outcome(m, NoTokenToDup)
     ELSE Outcome([m EXCEPT !.ref_info[source].num_tokens = @ + 1,
                            !.ref_info[source].num_splits = @ + 1], OK)

\* dup_token that does not count the split in num_splits
dup_token_unsplit(m, source) ==
  LET source_info == m.ref_info[source]
  IN IF source_info.num_tokens = 0 THEN Outcome(m, NoTokenToDup)
     ELSE Outcome([m EXCEPT !.ref_info[source].num_tokens = @ + 1,
                            !.token_count = @ + 1], OK)

dup_token(m, source) ==
  LET source_info == m.ref_info[source]
  IN IF source_info.num_tokens = 0 THEN Outcome(m, NoTokenToDup)
     ELSE Outcome([m EXCEPT !.ref_info[source].num_tokens = @ + 1,
                            !.ref_info[source].num_splits = @ + 1,
                            !.token_count = @ + 1], OK)

\* merge_token that leaves num_splits as it was
merge_token_keeps_splits(m, source, overflow_checks) ==
  LET source_info == m.ref_info[source]
      m1 == [m EXCEPT !.ref_info[source].num_tokens = @ - 1]
      m3 == [m1 EXCEPT !.token_count = @ - 1]
  IN IF U32LeOne(source_info.num_tokens) THEN Outcome(m, NothingToMerge)
     ELSE Outcome(m3, OK)

\* overflow_checks is the build profile: with it (debug) the u32 subtraction
\* num_splits -= 1 panics at zero, after num_tokens was already decremented;
\* without it (release) the subtraction wraps.
merge_token(m, source, overflow_checks) ==
  LET source_info == m.ref_info[source]
      m1 == [m EXCEPT !.ref_info[source].num_tokens = @ - 1]
      m2 == [m1 EXCEPT !.ref_info[source].num_splits = WrappingSub1(@)]
      m3 == [m2 EXCEPT !.token_count = @ - 1]
  IN IF U32LeOne(source_info.num_tokens) THEN Outcome(m, NothingToMerge)
     ELSE IF U32IsZero(source_info.num_splits) /\ overflow_checks
          THEN Outcome(m1, SubOverflow)
     ELSE Outcome(m3, OK)

get_token_info(m, source) ==
  LET source_info == m.ref_info[source]
      exclusivity == IF m.token_count = 1 THEN "Exclusive" ELSE "Shared"
      perms == m.token_perms
  IN IF source_info.num_tokens = 0 THEN [tag |-> "None"]
     ELSE IF ~(source_info.state # "Dead") THEN [tag |-> "Panic"]
     ELSE [tag |-> "Some", excl |-> exclusivity, perms |-> perms]

\* set_token_perms without the exclusivity check
set_token_perms_ungated(m, source, perms) ==
  LET token_info == get_token_info(m, source)
  IN IF token_info.tag = "Panic" THEN Outcome(m, DeadAssert)
     ELSE IF token_info.tag = "None" THEN Outcome(m, NoTokenForPerms)
     ELSE Outcome([m EXCEPT !.token_perms = perms], OK)

\* set_token_perms that tests exclusivity without asking whether the source
\* holds a token
set_token_perms_nonholder(m, source, perms) ==
  IF m.token_count # 1 THEN Outcome(m, NotExclusive)
  ELSE Outcome([m EXCEPT !.token_perms = perms], OK)

set_token_perms(m, source, perms) ==
  LET token_info == get_token_info(m, source)
  IN IF token_info.tag = "Panic" THEN Outcome(m, DeadAssert)
     ELSE IF token_info.tag = "None" THEN Outcome(m, NoTokenForPerms)
     ELSE IF token_info.excl # "Exclusive" THEN Outcome(m, NotExclusive)
     ELSE Outcome([m EXCEPT !.token_perms = perms], OK)

\* use_token whose Unique write rule is the SharedReadWrite one
use_token_unique_as_shared(m, source, access_kind) ==
  LET token_info == get_token_info(m, source)
      kind == m.ref_info[source].kind
      SharedRO == token_info.excl = "Shared" /\ token_info.perms = "ReadOnly"
  IN IF token_info.tag = "Panic" THEN Outcome(m, DeadAssert)
     ELSE IF token_info.tag = "None" THEN Outcome(m, NoToken)
     ELSE IF kind = "SharedReadOnly" THEN
            IF access_kind = "Read"
            THEN IF ~(SharedRO \/ token_info.excl = "Exclusive")
                 THEN Outcome(m, SROReadViolation) ELSE Outcome(m, OK)
            ELSE Outcome(m, ReadOnlyViolation)
     ELSE IF kind = "SharedReadWrite" THEN
            IF access_kind = "Read"
            THEN Outcome(m, OK)
            ELSE IF ~(token_info.perms = "ReadWrite")
                 THEN Outcome(m, SRWWriteViolation) ELSE Outcome(m, OK)
     ELSE   IF access_kind = "Read"
            THEN IF ~(SharedRO \/ token_info.excl = "Exclusive")
                 THEN Outcome(m, UniqueReadViolation) ELSE Outcome(m, OK)
            ELSE IF ~(token_info.perms = "ReadWrite")
                 THEN Outcome(m, UniqueWriteViolation) ELSE Outcome(m, OK)

use_token(m, source, access_kind) ==
  LET token_info == get_token_info(m, source)
      kind == m.ref_info[source].kind
      SharedRO == token_info.excl = "Shared" /\ token_info.perms = "ReadOnly"
      ExclusiveRW == token_info.excl = "Exclusive" /\ token_info.perms = "ReadWrite"
  IN IF token_info.tag = "Panic" THEN Outcome(m, DeadAssert)
     ELSE IF token_info.tag = "None" THEN Outcome(m, NoToken)
     ELSE IF kind = "SharedReadOnly" THEN
            IF access_kind = "Read"
            THEN IF ~(SharedRO \/ token_info.excl = "Exclusive")
                 THEN Outcome(m, SROReadViolation) ELSE Outcome(m, OK)
            ELSE Outcome(m, ReadOnlyViolation)
     ELSE IF kind = "SharedReadWrite" THEN
            IF access_kind = "Read"
            THEN Outcome(m, OK)
            ELSE IF ~(token_info.perms = "ReadWrite")
                 THEN Outcome(m, SRWWriteViolation) ELSE Outcome(m, OK)
     ELSE   IF access_kind = "Read"
            THEN IF ~(SharedRO \/ token_info.excl = "Exclusive")
                 THEN Outcome(m, UniqueReadViolation) ELSE Outcome(m, OK)
            ELSE IF ~ExclusiveRW
                 THEN Outcome(m, UniqueWriteViolation) ELSE Outcome(m, OK)

\* ------------------------------------------- machine.rs: operations
\* panic messages of machine.rs
M1ParentLacksToken == "Parent needs to have the token in order to lend it to a child"
M1InvariantViolation == "Invariant violation: child cannot already be borrowing when the parent has the token"
M1DeadTarget == "Target cannot be dead"
M1NotOwner == "You can only use the token if you have it"

\* the machine.rs TokenMachine value held in the variables
Machine1 ==
  [ref_count |-> m1_ref_count, current_owner |-> current_owner,
   ref_info |-> m1_ref_info]

m1_init ==
  [ref_count |-> 1,
   current_owner |-> 0,
   ref_info |-> Insert(<<>>, 0, [parent |-> 0, state |-> "Borrowing"])]

m1_create_ref(m, parent) ==
  LET id == m.ref_count
  IN [m |-> [m EXCEPT !.ref_count = @ + 1,
                      !.ref_info = Insert(@, id,
                                     [state |-> "Created", parent |-> parent])],
      res |-> OK,
      ret |-> {id}]

m1_borrow_token(m, target) ==
  LET target_info == m.ref_info[target]
      source == target_info.parent
  IN IF m.current_owner # source THEN Outcome(m, M1ParentLacksToken)
     ELSE IF target_info.state = "Borrowing" THEN Outcome(m, M1InvariantViolation)
     ELSE IF target_info.state = "Dead" THEN Outcome(m, M1DeadTarget)
     ELSE Outcome([m EXCEPT !.ref_info[target].state = "Borrowing",
                            !.current_owner = target], OK)

m1_return_token(m) ==
  LET source == m.current_owner
      source_info == m.ref_info[source]
      target == source_info.parent
  IN Outcome([m EXCEPT !.ref_info[source].state = "Dead",
                       !.current_owner = target], OK)

m1_use_token(m, source) ==
  IF source # m.current_owner THEN Outcome(m, M1NotOwner)
  ELSE Outcome(m, OK)

\* --------------------------------------------------------------- actions
\* no call has panicked: the machine can still be called
Running == last.res = OK

\* A call: the machine becomes the outcome's machine and the call is recorded
\* (operation, reference argument, second argument, result).  A successful
\* dup_token also records the machine it was called on (pre), kept while that
\* dup_token, or the merge_token of the same reference directly after it, is
\* the latest call.  A panic is not caught anywhere in the crate: it ends the
\* run, so no call follows a call that panicked.
Step(op, ref, out) ==
  /\ Running
  /\ out.m.ref_count <= MaxRefs
  /\ out.m.token_count <= MaxTokens
  /\ ref_count' = out.m.ref_count
  /\ token_count' = out.m.token_count
  /\ ref_info' = out.m.ref_info
  /\ token_perms' = out.m.token_perms
  /\ returned' = IF op = "return_token" /\ out.res = OK
                    /\ out.m.ref_info[ref].num_tokens = 0
                 THEN returned \cup {ref} ELSE returned

Apply(op, ref, arg, out) ==
  /\ Step(op, ref, out)
  /\ last' = [op |-> op, ref |-> ref, arg |-> arg, res |-> out.res,
              pre |-> IF op = "dup_token" /\ out.res = OK THEN {Machine}
                      ELSE IF op = "merge_token" /\ last.op = "dup_token"
                              /\ last.ref = ref THEN last.pre
                      ELSE {}]

Call(op, ref, arg, out) ==
  /\ Apply(op, ref, arg, out)
  /\ UNCHANGED <<hist, vars1>>

Init ==
  /\ ref_count = init.ref_count
  /\ token_count = init.token_count
  /\ ref_info = init.ref_info
  /\ token_perms = init.token_perms
  /\ last = [op |-> "init", ref |-> 0, arg |-> "none", res |-> OK, pre |-> {}]
  /\ returned = {}
  /\ written = {}
  /\ superseded = {}
  /\ m1_ref_count = m1_init.ref_count
  /\ current_owner = m1_init.current_owner
  /\ m1_ref_info = m1_init.ref_info
  /\ m1_last = [op |-> "init", ref |-> 0, res |-> OK]

CreateRef ==
  \E parent \in References(Machine), kind \in RefKind :
    Call("create_ref", parent, kind, create_ref(Machine, parent, kind))

BorrowToken ==
  \E target \in References(Machine) :
    Call("borrow_token", target, "none", borrow_token(Machine, target))

ReturnToken ==
  \E source \in References(Machine) :
    Call("return_token", source, "none", return_token(Machine, source))

DupToken ==
  \E source \in References(Machine) :
    Call("dup_token", source, "none", dup_token(Machine, source))

MergeToken ==
  \E source \in References(Machine), overflow_checks \in BOOLEAN :
    Call("merge_token", source, "none", merge_token(Machine, source, overflow_checks))

SetTokenPerms ==
  \E source \in References(Machine), perms \in TokenPermissions :
    Call("set_token_perms", source, perms, set_token_perms(Machine, source, perms))

UseToken ==
  \E source \in References(Machine), access_kind \in AccessKind :
    Call("use_token", source, access_kind, use_token(Machine, source, access_kind))

Next ==
  \/ CreateRef
  \/ BorrowToken
  \/ ReturnToken
  \/ DupToken
  \/ MergeToken
  \/ SetTokenPerms
  \/ UseToken

Spec == Init /\ [][Next]_vars

\* the proper ancestors of r: its parent, its parent's parent, ... up to the
\* self-parented root
RECURSIVE Ancestors(_, _)
Ancestors(ri, r) ==
  IF ri[r].parent = r THEN {}
  ELSE {ri[r].parent} \cup Ancestors(ri, ri[r].parent)

\* r and the references derived, directly or transitively, from r
Subtree(ri, r) == {d \in DOMAIN ri : d = r \/ r \in Ancestors(ri, d)}

\* ------------------------------------------ machine2.rs with write history
\* A call of machine2.rs that also keeps the history of writes: a successful
\* write through a Unique reference joins written, and supersedes every
\* earlier writer that is neither its ancestor nor its descendant.  The runs
\* followed are those whose calls before the last access all returned: a
\* rejected use_token is recorded, any other rejected call only ends the run.
\* Of the calls, the history records the accesses only: every other call
\* leaves the same record behind.
Related(ri, x, y) == x = y \/ x \in Ancestors(ri, y) \/ y \in Ancestors(ri, x)

OtherCall == [op |-> "call", ref |-> 0, arg |-> "none", res |-> OK, pre |-> {}]

CallH(op, ref, arg, out) ==
  /\ Running
  /\ (op = "use_token" \/ out.res = OK)
  /\ Step(op, ref, out)
  /\ last' = IF op = "use_token"
             THEN [op |-> op, ref |-> ref, arg |-> arg, res |-> out.res,
                   pre |-> {}]
             ELSE OtherCall
  /\ LET wrote == /\ op = "use_token" /\ arg = "Write" /\ out.res = OK
                  /\ ref_info[ref].kind = "Unique"
     IN /\ written' = IF wrote THEN written \cup {ref} ELSE written
        /\ superseded' =
             IF wrote
             THEN superseded \cup {x \in written : ~Related(ref_info, x, ref)}
             ELSE superseded
  /\ UNCHANGED vars1

HCreateRef ==
  \E parent \in References(Machine), kind \in RefKind :
    CallH("create_ref", parent, kind, create_ref(Machine, parent, kind))

HBorrowToken ==
  \E target \in References(Machine) :
    CallH("borrow_token", target, "none", borrow_token(Machine, target))

HReturnToken ==
  \E source \in References(Machine) :
    CallH("return_token", source, "none", return_token(Machine, source))

HDupToken ==
  \E source \in References(Machine) :
    CallH("dup_token", source, "none", dup_token(Machine, source))

HMergeToken ==
  \E source \in References(Machine), overflow_checks \in BOOLEAN :
    CallH("merge_token", source, "none", merge_token(Machine, source, overflow_checks))

HSetTokenPerms ==
  \E source \in References(Machine), perms \in TokenPermissions :
    CallH("set_token_perms", source, perms, set_token_perms(Machine, source, perms))

HUseToken ==
  \E source \in References(Machine), access_kind \in AccessKind :
    CallH("use_token", source, access_kind, use_token(Machine, source, access_kind))

NextHist ==
  \/ HCreateRef
  \/ HBorrowToken
  \/ HReturnToken
  \/ HDupToken
  \/ HMergeToken
  \/ HSetTokenPerms
  \/ HUseToken

SpecHist == Init /\ [][NextHist]_vars

\* --------------------------------------------------- machine.rs: actions
Running1 == m1_last.res = OK

Call1(op, ref, out) ==
  /\ Running1
  /\ out.m.ref_count <= MaxRefs
  /\ m1_ref_count' = out.m.ref_count
  /\ current_owner' = out.m.current_owner
  /\ m1_ref_info' = out.m.ref_info
  /\ m1_last' = [op |-> op, ref |-> ref, res |-> out.res]
  /\ UNCHANGED <<vars2, hist>>

M1CreateRef ==
  \E parent \in References(Machine1) :
    Call1("create_ref", parent, m1_create_ref(Machine1, parent))

M1BorrowToken ==
  \E target \in References(Machine1) :
    Call1("borrow_token", target, m1_borrow_token(Machine1, target))

M1ReturnToken ==
  Call1("return_token", current_owner, m1_return_token(Machine1))

M1UseToken ==
  \E source \in References(Machine1) :
    Call1("use_token", source, m1_use_token(Machine1, source))

Next1 ==
  \/ M1CreateRef
  \/ M1BorrowToken
  \/ M1ReturnToken
  \/ M1UseToken

Spec1 == Init /\ [][Next1]_vars

\* ================================================================ claims
\* What a call would do is stated of the states in which a call can be made
\* (Running); a state left by a panic is judged by the call recorded in last.
Refs == References(Machine)

RECURSIVE SumTokens(_, _)
SumTokens(ri, S) ==
  IF S = {} THEN 0
  ELSE LET r == CHOOSE x \in S : TRUE
       IN ri[r].num_tokens + SumTokens(ri, S \ {r})

Exclusivity == IF token_count = 1 THEN "Exclusive" ELSE "Shared"

\* C1: the sum of num_tokens over all references equals token_count in every
\* reachable state, and token_count changes only in a successful dup_token
\* (by +1) or a successful merge_token (by -1); every other call leaves it.
C1_UnitConservation ==
  /\ [](SumTokens(ref_info, Refs) = token_count)
  /\ [][ /\ (last'.op = "dup_token" /\ last'.res = OK) => token_count' = token_count + 1
         /\ (last'.op = "merge_token" /\ last'.res = OK) => token_count' = token_count - 1
         /\ ~(last'.op \in {"dup_token", "merge_token"} /\ last'.res = OK)
              => token_count' = token_count ]_vars

\* after a split, a lend has just left the units spread over two references
C1_Witness ==
  /\ last.op = "borrow_token" /\ last.res = OK
  /\ token_count >= 2
  /\ \E r, q \in Refs : r # q /\ ref_info[r].num_tokens >= 1
                               /\ ref_info[q].num_tokens >= 1

\* the access table of claim C2
AccessTable(kind, excl, perms, access) ==
  CASE kind = "SharedReadOnly" /\ access = "Read" ->
         (excl = "Shared" /\ perms = "ReadOnly") \/ excl = "Exclusive"
    [] kind = "SharedReadOnly" /\ access = "Write" -> FALSE
    [] kind = "SharedReadWrite" /\ access = "Read" -> TRUE
    [] kind = "SharedReadWrite" /\ access = "Write" -> perms = "ReadWrite"
    [] kind = "Unique" /\ access = "Read" ->
         (excl = "Shared" /\ perms = "ReadOnly") \/ excl = "Exclusive"
    [] kind = "Unique" /\ access = "Write" ->
         excl = "Exclusive" /\ perms = "ReadWrite"

\* C2: for every reference that holds a unit and is not Dead, use_token
\* succeeds exactly where the access table says, for both access kinds.
C2_AccessDecisionTable ==
  [](/\ Running => \A r \in Refs, a \in AccessKind :
          (ref_info[r].num_tokens >= 1 /\ ref_info[r].state # "Dead")
            => ((use_token(Machine, r, a).res = OK)
                  <=> AccessTable(ref_info[r].kind, Exclusivity, token_perms, a))
     /\ (last.op = "use_token" /\ ref_info[last.ref].num_tokens >= 1
           /\ ref_info[last.ref].state # "Dead")
          => ((last.res = OK)
                <=> AccessTable(ref_info[last.ref].kind, Exclusivity, token_perms, last.arg)))

\* a shared read-only reference has just read under a shared read-only token
C2_Witness ==
  /\ last.op = "use_token" /\ last.arg = "Read" /\ last.res = OK
  /\ ref_info[last.ref].kind = "SharedReadOnly"
  /\ token_count >= 2 /\ token_perms = "ReadOnly"

\* C3 as stated: set_token_perms succeeds for a source iff token_count = 1.
C3_Original ==
  \A s \in Refs, p \in TokenPermissions :
    (set_token_perms(Machine, s, p).res = OK) <=> (token_count = 1)

\* C3 (amended): set_token_perms(source, mode) succeeds iff source holds at
\* least one unit, is not Dead, and token_count is exactly 1; so with
\* token_count 3 every call fails.
C3_ExclusivityGating ==
  [](/\ Running => \A s \in Refs, p \in TokenPermissions :
          (set_token_perms(Machine, s, p).res = OK)
            <=> (ref_info[s].num_tokens >= 1 /\ ref_info[s].state # "Dead"
                   /\ token_count = 1)
     /\ last.op = "set_token_perms" =>
          ((last.res = OK) <=> (ref_info[last.ref].num_tokens >= 1
                                 /\ ref_info[last.ref].state # "Dead"
                                 /\ token_count = 1)))

\* a reference holding nothing was refused although token_count is 1
C3_Witness ==
  /\ last.op = "set_token_perms" /\ last.res = NoTokenForPerms
  /\ token_count = 1

\* C4: return_token fails for every source whose num_splits is nonzero, so a
\* return_token that succeeded was called with num_splits = 0.
C4_WholeUnitReturn ==
  /\ Running => \A x \in Refs :
       ref_info[x].num_splits # 0 => return_token(Machine, x).res # OK
  /\ (last.op = "return_token" /\ ref_info[last.ref].num_splits # 0)
       => last.res # OK

\* a return was refused because of an outstanding split
C4_Witness ==
  /\ last.op = "return_token" /\ last.res = PartialReturnForbidden
  /\ ref_info[last.ref].num_splits >= 1
  /\ ref_info[last.ref].num_tokens >= 1

StateRank(st) == CASE st = "Created" -> 0 [] st = "Borrowing" -> 1 [] st = "Dead" -> 2

\* C5: no step moves a reference's state backwards along
\* Created -> Borrowing -> Dead; Dead is absorbing.
C5_MonotonicLifecycle ==
  [][\A r \in Refs :
       /\ StateRank(ref_info'[r].state) >= StateRank(ref_info[r].state)
       /\ ref_info[r].state = "Dead" => ref_info'[r].state = "Dead"]_vars

\* a lend succeeded while some other reference was already Dead
C5_Witness ==
  /\ last.op = "borrow_token" /\ last.res = OK
  /\ \E r \in Refs : ref_info[r].state = "Dead"

\* C6: every reference whose state is Dead holds no unit (the root
\* included), so the assertion of get_token_info never fails.
C6_DeadHoldsNoUnits ==
  /\ \A r \in Refs : ref_info[r].state = "Dead" => ref_info[r].num_tokens = 0
  /\ \A r \in Refs : get_token_info(Machine, r).tag # "Panic"

\* C7 as stated: once return_token(x) has left x with no unit, every later
\* borrow_token(x) fails with "Target cannot be dead" and x holds nothing.
C7_Original ==
  /\ \A x \in returned :
       /\ borrow_token(Machine, x).res = DeadTarget
       /\ ref_info[x].num_tokens = 0
  /\ (last.op = "borrow_token" /\ last.ref \in returned) => last.res = DeadTarget

\* C7 (amended): once return_token(x) has left x with no unit, every later
\* borrow_token(x) fails and x keeps holding nothing; the fault is "Target
\* cannot be dead" when x's parent holds a unit at that time and "Need to
\* have a token to lend one out" when it holds none.
C7_DeadCannotReceive ==
  /\ Running => \A x \in returned :
       /\ ref_info[x].state = "Dead"
       /\ ref_info[x].num_tokens = 0
       /\ borrow_token(Machine, x).m = Machine
       /\ borrow_token(Machine, x).res =
            IF ref_info[ref_info[x].parent].num_tokens = 0
            THEN InsufficientTokens ELSE DeadTarget
  /\ (last.op = "borrow_token" /\ last.ref \in returned) =>
       last.res = IF ref_info[ref_info[last.ref].parent].num_tokens = 0
                  THEN InsufficientTokens ELSE DeadTarget

\* a lend to a returned reference was refused for lack of a unit in its parent
C7_Witness ==
  /\ last.op = "borrow_token" /\ last.ref \in returned
  /\ last.res = InsufficientTokens
  /\ ref_info[last.ref].state = "Dead"

\* the effects of a successful lend of one unit from parent p to target t,
\* from machine m to machine n
LendEffects(m, n, t) ==
  LET p == m.ref_info[t].parent
  IN /\ n.ref_info[p].num_tokens = m.ref_info[p].num_tokens - 1
     /\ n.ref_info[t].num_tokens = m.ref_info[t].num_tokens + 1
     /\ n.ref_info[t].state = "Borrowing"

\* C8 as stated, for derived targets: borrow_token(target) succeeds whenever
\* target's parent holds a unit and target is not Dead, a target in
\* Borrowing included.
C8_Original ==
  \A t \in Refs \ {0} :
    (ref_info[ref_info[t].parent].num_tokens >= 1 /\ ref_info[t].state # "Dead")
      => /\ borrow_token(Machine, t).res = OK
         /\ LendEffects(Machine, borrow_token(Machine, t).m, t)

\* C8 (amended): borrow_token(target) succeeds iff target's parent holds at
\* least one unit and target is in state Created; a target already in
\* Borrowing is refused ("Target has already received a token before").  On
\* success the parent holds one unit less, the target one more, and the
\* target is in Borrowing.
C8_LendToCreatedTarget ==
  /\ Running => \A t \in Refs :
       LET out == borrow_token(Machine, t)
           parentHolds == ref_info[ref_info[t].parent].num_tokens >= 1
       IN /\ (out.res = OK) <=> (parentHolds /\ ref_info[t].state = "Created")
          /\ (parentHolds /\ ref_info[t].state = "Borrowing")
               => out.res = AlreadyBorrowing
          /\ out.res = OK => LendEffects(Machine, out.m, t)
  /\ (last.op = "borrow_token" /\ last.res = OK) =>
       /\ ref_info[last.ref].state = "Borrowing"
       /\ ref_info[last.ref].num_tokens = 1

\* a second lend to a live, derived reference was refused
C8_Witness ==
  /\ last.op = "borrow_token" /\ last.res = AlreadyBorrowing
  /\ last.ref # 0
  /\ ref_info[last.ref].state = "Borrowing"
  /\ ref_info[ref_info[last.ref].parent].num_tokens >= 1

\* C9: create_ref(parent, kind) fails iff parent's kind is SharedReadOnly and
\* kind is not; otherwise it succeeds whatever the parent's state or
\* holdings and returns a fresh identity in state Created with no units, no
\* splits, the given parent and kind, every other record left as it was.
C9_ReadOnlySpawnRestriction ==
  [](/\ Running => \A p \in Refs, k \in RefKind :
          LET out == create_ref(Machine, p, k)
              id == ref_count
          IN /\ (out.res # OK) <=> (ref_info[p].kind = "SharedReadOnly"
                                      /\ k # "SharedReadOnly")
             /\ out.res # OK => out.m = Machine
             /\ out.res = OK =>
                  /\ out.ret = {id}
                  /\ id \notin Refs
                  /\ DOMAIN out.m.ref_info = Refs \cup {id}
                  /\ out.m.ref_info[id] =
                       [kind |-> k, state |-> "Created", num_tokens |-> 0,
                        num_splits |-> 0, parent |-> p]
                  /\ \A r \in Refs : out.m.ref_info[r] = ref_info[r]
     /\ last.op = "create_ref" =>
          IF last.res = OK
          THEN /\ ref_info[ref_count - 1] =
                    [kind |-> last.arg, state |-> "Created", num_tokens |-> 0,
                     num_splits |-> 0, parent |-> last.ref]
               /\ ~(ref_info[last.ref].kind = "SharedReadOnly"
                      /\ last.arg # "SharedReadOnly")
          ELSE /\ last.res = KindViolation
               /\ ref_info[last.ref].kind = "SharedReadOnly"
               /\ last.arg # "SharedReadOnly")

\* a Dead parent holding nothing has just spawned a reference
C9_Witness ==
  /\ last.op = "create_ref" /\ last.res = OK
  /\ ref_info[last.ref].state = "Dead"
  /\ ref_info[last.ref].num_tokens = 0
  /\ ref_info[ref_count - 1].parent = last.ref

\* C10: wherever dup_token(x) succeeds, merge_token(x) right after it
\* succeeds too and gives back the machine dup_token was called on:
\* x's num_tokens and num_splits, token_count, and everything else.
C10_SplitMergeRoundTrip ==
  [](/\ Running => \A x \in Refs :
          LET dup == dup_token(Machine, x)
          IN dup.res = OK =>
               \A oc \in BOOLEAN : merge_token(dup.m, x, oc) = Outcome(Machine, OK)
     /\ (last.op = "merge_token" /\ last.pre # {}) =>
          /\ last.res = OK
          /\ last.pre = {Machine})

\* merge_token(x) has just run directly after a successful dup_token(x), on a
\* derived reference x
C10_Witness ==
  /\ last.op = "merge_token" /\ last.pre # {}
  /\ last.ref # 0
  /\ ref_info[last.ref].num_tokens >= 1

\* C11: a call that is rejected leaves ref_count, token_count, every
\* reference record and token_perms exactly as they were before the call.
C11_NoPartialFailure ==
  [][last'.res # OK => Machine' = Machine]_vars

\* a merge was refused on a reference that holds a single unit among several
\* references
C11_Witness ==
  /\ last.op = "merge_token" /\ last.res = NothingToMerge
  /\ ref_info[last.ref].num_tokens = 1
  /\ ref_count >= 2

\* C12: token_perms changes only in a successful set_token_perms, and a
\* set_token_perms succeeds only when its source holds a unit and
\* token_count is 1, every other reference holding none.
C12_ModeChangeBySoleHolder ==
  [][ /\ token_perms' # token_perms
           => (last'.op = "set_token_perms" /\ last'.res = OK)
      /\ (last'.op = "set_token_perms" /\ last'.res = OK)
           => /\ token_perms' = last'.arg
              /\ ref_info[last'.ref].num_tokens >= 1
              /\ token_count = 1
              /\ \A r \in Refs \ {last'.ref} : ref_info[r].num_tokens = 0
      /\ ~(last'.op = "set_token_perms" /\ last'.res = OK)
           => token_perms' = token_perms ]_vars

\* a derived reference, sole holder, has just switched the token to read-only
C12_Witness ==
  /\ last.op = "set_token_perms" /\ last.res = OK
  /\ last.ref # 0
  /\ token_perms = "ReadOnly"
  /\ ref_info[last.ref].num_tokens = 1

\* C13: once return_token(x) has succeeded (x is Dead), x and every
\* reference derived from x hold no unit, and no use_token through any of
\* them succeeds.
C13_ReturnDisablesSubtree ==
  \A x \in Refs :
    ref_info[x].state = "Dead" =>
      \A d \in Subtree(ref_info, x) :
        /\ ref_info[d].num_tokens = 0
        /\ \A a \in AccessKind : use_token(Machine, d, a).res # OK

\* C14: no step changes the kind or the parent of an existing reference or
\* removes a reference, create_ref adds exactly one identity that was not in
\* use, and the root is the only reference that is its own parent.
C14_ImmutableHierarchy ==
  /\ [](\A r \in Refs : (ref_info[r].parent = r) <=> (r = 0))
  /\ [][ /\ \A r \in Refs :
              /\ r \in DOMAIN ref_info'
              /\ ref_info'[r].kind = ref_info[r].kind
              /\ ref_info'[r].parent = ref_info[r].parent
         /\ IF last'.op = "create_ref" /\ last'.res = OK
            THEN /\ DOMAIN ref_info' = Refs \cup {ref_count}
                 /\ ref_count \notin Refs
                 /\ ref_count' = ref_count + 1
            ELSE /\ DOMAIN ref_info' = Refs
                 /\ ref_count' = ref_count ]_vars

\* three references exist and one of them has just returned its unit
C14_Witness ==
  /\ ref_count >= 3
  /\ last.op = "return_token" /\ last.res = OK
  /\ last.ref # 0

\* C15: every reference holds at most num_splits + 1 units, so the
\* assertion of return_token never fails and the subtraction
\* num_splits -= 1 of merge_token never underflows.
C15_UnitsBoundedBySplits ==
  [](/\ \A r \in Refs :
          /\ ref_info[r].num_splits >= 0
          /\ ref_info[r].num_tokens <= ref_info[r].num_splits + 1
     /\ last.res \notin {ReturnAssert, SubOverflow}
     /\ Running => \A x \in Refs :
          /\ return_token(Machine, x).res # ReturnAssert
          /\ \A oc \in BOOLEAN :
               LET merged == merge_token(Machine, x, oc).res
               IN /\ merged # SubOverflow
                  /\ merged = OK => ref_info[x].num_splits >= 1)

\* a merge has just brought a reference back to one unit and no split
C15_Witness ==
  /\ last.op = "merge_token" /\ last.res = OK
  /\ ref_info[last.ref].num_tokens = 1
  /\ ref_info[last.ref].num_splits = 0

\* the references for which use_token with access a would succeed
CanUse(a) == {r \in Refs : use_token(Machine, r, a).res = OK}

\* C16: if a SharedReadOnly or Unique reference r could read, no other
\* reference could write; if a Unique reference u could write, u holds the
\* only unit and no other reference could read or write.
C16_ReaderWriterExclusion ==
  Running =>
    LET readers == CanUse("Read")
        writers == CanUse("Write")
    IN /\ \A r \in readers :
            ref_info[r].kind \in {"SharedReadOnly", "Unique"}
              => writers \subseteq {r}
       /\ \A u \in writers :
            ref_info[u].kind = "Unique"
              => /\ token_count = 1
                 /\ ref_info[u].num_tokens = 1
                 /\ \A r \in Refs \ {u} : ref_info[r].num_tokens = 0
                 /\ readers \subseteq {u}
                 /\ writers \subseteq {u}

\* a Unique reference has just read under a shared read-only token while a
\* SharedReadWrite reference holds a unit too
C16_Witness ==
  /\ last.op = "use_token" /\ last.arg = "Read" /\ last.res = OK
  /\ ref_info[last.ref].kind = "Unique"
  /\ token_count >= 2
  /\ \E w \in Refs \ {last.ref} :
       ref_info[w].kind = "SharedReadWrite" /\ ref_info[w].num_tokens >= 1

\* C18: every reference with a SharedReadOnly ancestor is SharedReadOnly
\* itself, and use_token(r, Write) succeeds neither for a SharedReadOnly
\* reference nor for a reference derived from one.
C18_NoEscalationByDerivation ==
  /\ \A r \in Refs :
       (\E a \in Ancestors(ref_info, r) : ref_info[a].kind = "SharedReadOnly")
         => ref_info[r].kind = "SharedReadOnly"
  /\ Running => \A s \in Refs :
       ref_info[s].kind = "SharedReadOnly" =>
         \A d \in Subtree(ref_info, s) : use_token(Machine, d, "Write").res # OK
  /\ (last.op = "use_token" /\ last.arg = "Write"
        /\ \E s \in Refs : ref_info[s].kind = "SharedReadOnly"
                            /\ last.ref \in Subtree(ref_info, s))
       => last.res # OK

\* a reference derived from a SharedReadOnly reference, holding the only
\* unit of a read-write token, was refused a write
C18_Witness ==
  /\ last.op = "use_token" /\ last.arg = "Write"
  /\ last.res = ReadOnlyViolation
  /\ ref_info[last.ref].num_tokens = 1
  /\ token_count = 1 /\ token_perms = "ReadWrite"
  /\ ref_info[last.ref].parent # 0
  /\ ref_info[ref_info[last.ref].parent].kind = "SharedReadOnly"

\* C17: no run contains a successful write through a Unique reference X,
\* later a successful write through a Unique reference Y that is neither an
\* ancestor nor a descendant of X, and later still a successful use_token
\* through X: a successful use_token is never through a superseded writer.
C17_NoInterleavedSiblingWrites ==
  (last.op = "use_token" /\ last.res = OK) => last.ref \notin superseded

\* X wrote, the unrelated Y wrote after it, and X, Dead by then, was refused
\* an access
C17_Witness ==
  /\ last.op = "use_token" /\ last.res # OK
  /\ last.ref \in superseded
  /\ ref_info[last.ref].state = "Dead"
  /\ \E y \in written : ~Related(ref_info, last.ref, y)

Refs1 == References(Machine1)

\* C19 (machine.rs): the "Invariant violation" branch of borrow_token is
\* never taken: no reference whose parent is the current owner, the root
\* included, is in state Borrowing.
C19_ChildOfOwnerNotBorrowing ==
  /\ \A t \in Refs1 :
       m1_ref_info[t].parent = current_owner
         => m1_ref_info[t].state # "Borrowing"
  /\ m1_last.res # M1InvariantViolation

\* C20 (machine.rs): the current owner of the token is in state Borrowing,
\* never Dead or Created, so no use_token succeeds for a Dead reference.
C20_OwnerIsBorrowing ==
  /\ m1_ref_info[current_owner].state = "Borrowing"
  /\ (m1_last.op = "use_token" /\ m1_last.res = OK)
       => m1_ref_info[m1_last.ref].state # "Dead"

====
